---- MODULE Spec2Model ----
(***************************************************************************)
(* The order-execution and ledger engine of crypto_backtest (broker.py),   *)
(* driven by CryptoBacktest.run (crypto_backtest.py) with one Strategy     *)
(* (strategy.py) whose handle_data may call any entry point of the broker. *)
(*                                                                         *)
(* Amounts are exact: one unit is 1/FeeDen of a currency unit, so that the *)
(* default market fee 0.0025 = 1/400 of a whole-unit amount is an integer. *)
(* Fee rates are numerators over FeeDen. Floating-point rounding of the    *)
(* Python floats is not modelled.                                          *)
(***************************************************************************)
EXTENDS Integers, Sequences, FiniteSets, TLC

\* ---------------------------------------------------------------- bounds
MaxSteps == 3     \* rows of the price series
MaxCalls == 3     \* accepted placements and cancel_order calls over a run

\* ------------------------------------------------------------- constants
FeeDen == 400                 \* 0.0025 = 1/400
DEFAULT_FEE == 0
DEFAULT_LIMIT_FEE == 0
DEFAULT_MARKET_FEE == 1       \* 0.0025, in 1/FeeDen

NaN == -1                     \* pandas' missing value
None == -2                    \* Python's None

BUY_SIDE == "buy"
SELL_SIDE == "sell"
LIMIT_TYPE == "limit"
MARKET_TYPE == "market"
PENDING_STATUS == "pending"
COMPLETED_STATUS == "completed"
CANCELLED_STATUS == "cancelled"

\* CryptoBacktest.__init__: Account('USD', 1000), Account('BTC', 0, 'Close')
account_symbols == <<"USD", "BTC">>
Symbols == {"USD", "BTC"}
starting_balances == [USD |-> 1000 * FeeDen, BTC |-> 0]
price_columns == [USD |-> "None", BTC |-> "Close"]

\* ----------------------------------------------------------------- inputs
Steps == 1..MaxSteps
\* The price series the run is given: the Close column, a price or missing
\* (NaN) at each step. A series repeats one of the patterns to MaxSteps rows.
Patterns == {<<100, 110, 90>>, <<110, 100, 90>>, <<100, NaN, 110>>}
Series == {[i \in Steps |-> p[((i - 1) % Len(p)) + 1]] : p \in Patterns}
LimitPrices == {95, 100}               \* prices a strategy asks for
Sizes == {FeeDen}                      \* one whole unit of the base currency
Pairs == {<<"BTC", "USD">>, <<"USD", "BTC">>}   \* <<base, quote>>
FeeRates == {DEFAULT_LIMIT_FEE, DEFAULT_MARKET_FEE}

VARIABLES
  data,             \* Broker.data: data[i] is the Close of step i
  index,            \* Broker.index: the current step, 0 before the first
  accounts_df,      \* the ledger: step -> symbol -> balance (NaN: not populated)
  metrics,          \* step -> 'Total Value' (NaN: not recorded)
  orders,           \* Broker.orders: the pending list, as references into heap
  heap,             \* the Order objects of accepted placements, by reference
  limit_fee,
  market_fee,
  strategy_broker,  \* Strategy.broker is set
  pc,               \* where CryptoBacktest.run stands
  exc,              \* the exception that ended the run, or "none"
  ncancel,          \* cancel_order calls so far
  lastOp,           \* history: the call that led to this state, and its outcome
  flows             \* history: per account, what the calls so far moved

vars == <<data, index, accounts_df, metrics, orders, heap, limit_fee, market_fee,
          strategy_broker, pc, exc, ncancel, lastOp, flows>>

\* ------------------------------------------------------------ arithmetic
\* float arithmetic with NaN: any operation on NaN gives NaN, any comparison False
Add(a, b) == IF a = NaN \/ b = NaN THEN NaN ELSE a + b
Sub(a, b) == IF a = NaN \/ b = NaN THEN NaN ELSE a - b
Mul(a, b) == IF a = NaN \/ b = NaN THEN NaN ELSE a * b
Gt(a, b) == a # NaN /\ b # NaN /\ a > b
Geq(a, b) == a # NaN /\ b # NaN /\ a >= b
Leq(a, b) == a # NaN /\ b # NaN /\ a <= b

\* ----------------------------------------------------------------- Order
NewOrder(side, type, base, quote, credit, debit, price, size, dt, ct) ==
  [side |-> side, type |-> type, base |-> base, quote |-> quote,
   credit_account |-> credit, debit_account |-> debit,
   status |-> PENDING_STATUS,
   price |-> price, size |-> size, debit_total |-> dt, credit_total |-> ct]

NullOrder ==
  [side |-> "none", type |-> "none", base |-> "none", quote |-> "none",
   credit_account |-> "none", debit_account |-> "none", status |-> "none",
   price |-> 0, size |-> 0, debit_total |-> 0, credit_total |-> 0]

\* The broker's mutable state as one value, threaded through the methods.
Self ==
  [index |-> index, accounts_df |-> accounts_df, metrics |-> metrics,
   orders |-> orders, heap |-> heap, data |-> data, exc |-> "none"]

\* ------------------------------------------------------------ the ledger
get_account_balance(b, account) == b.accounts_df[b.index][account]

set_account_balance(b, account, balance) ==
  [b EXCEPT !.accounts_df[b.index][account] = balance]

\* mutant: every step starts again from the starting balances
populate_account_balances_from_start(b) ==
  [b EXCEPT !.accounts_df[b.index] = starting_balances]

populate_account_balances(b) ==
  LET prev_index == b.index - 1
  IN IF prev_index >= 1
       THEN [b EXCEPT !.accounts_df[b.index] = b.accounts_df[prev_index]]
       ELSE [b EXCEPT !.accounts_df[b.index] = starting_balances]

\* None when the account has no price column, else the row's value (maybe NaN)
get_current_price(b, account) ==
  IF price_columns[account] = "None" THEN None ELSE b.data[b.index]

\* ------------------------------------------------------------- execution
\* mutant: one rate for every order
get_fee_market_only(order) == market_fee

get_fee(order) ==
  IF order.type = LIMIT_TYPE THEN limit_fee
  ELSE IF order.type = MARKET_TYPE THEN market_fee
  ELSE DEFAULT_FEE

\* fee = order.debit_total * self.get_fee(order)
Fee(order) ==
  IF order.debit_total = NaN THEN NaN
  ELSE (order.debit_total * get_fee(order)) \div FeeDen

\* mutant: the credit leg gets the debit leg's amount
execute_order_credit_debit_total(b, id) ==
  IF b.heap[id].status = PENDING_STATUS
    THEN LET o == b.heap[id]
             balance == Add(b.accounts_df[b.index][o.credit_account], o.debit_total)
         IN [b EXCEPT !.accounts_df[b.index][o.credit_account] = balance,
                      !.heap[id].status = COMPLETED_STATUS]
    ELSE b

\* mutant: the order is executed whatever its status
execute_order_unguarded(b, id) ==
  LET o == b.heap[id]
      balance == Add(get_account_balance(b, o.credit_account), o.credit_total)
      b1 == set_account_balance(b, o.credit_account, balance)
  IN [b1 EXCEPT !.heap[id].status = COMPLETED_STATUS]

\* mutant: the fill is credited at the current price, not the order's
execute_order_at_current_price(b, id) ==
  IF b.heap[id].status = PENDING_STATUS
    THEN LET o == b.heap[id]
             current_price == get_current_price(b, o.base)
             credit == IF current_price \in {NaN, None} \/ o.debit_total = NaN
                         THEN o.credit_total
                       ELSE IF o.side = SELL_SIDE THEN current_price * o.size
                       ELSE o.debit_total \div current_price
             balance == Add(get_account_balance(b, o.credit_account), credit)
             b1 == set_account_balance(b, o.credit_account, balance)
         IN [b1 EXCEPT !.heap[id].status = COMPLETED_STATUS]
    ELSE b

execute_order(b, id) ==
  IF b.heap[id].status = PENDING_STATUS
    THEN LET o == b.heap[id]
             balance == Add(get_account_balance(b, o.credit_account), o.credit_total)
             b1 == set_account_balance(b, o.credit_account, balance)
         IN [b1 EXCEPT !.heap[id].status = COMPLETED_STATUS]
    ELSE b

\* can_buy or can_sell, for a current price that is a number or NaN
CanFill(order, current_price) ==
  LET is_buy_order == order.side = BUY_SIDE
      is_price_greater == Geq(order.price, current_price)
      can_buy == is_buy_order /\ is_price_greater
      is_sell_order == order.side = SELL_SIDE
      is_price_lower == Leq(order.price, current_price)
      can_sell == is_sell_order /\ is_price_lower
  IN can_buy \/ can_sell

\* order.price >= None raises TypeError
handle_limit_order(b, id) ==
  LET current_price == get_current_price(b, b.heap[id].base)
  IN IF current_price = None
       THEN [b EXCEPT !.exc = "TypeError"]
       ELSE IF CanFill(b.heap[id], current_price) THEN execute_order(b, id) ELSE b

\* for order in self.orders: if not resolved, keep it
RECURSIVE CleanLoop(_, _, _)
CleanLoop(b, k, cleaned_orders) ==
  IF k > Len(b.orders) THEN cleaned_orders
  ELSE LET id == b.orders[k]
       IN IF b.heap[id].status \notin {COMPLETED_STATUS, CANCELLED_STATUS}
            THEN CleanLoop(b, k + 1, Append(cleaned_orders, id))
            ELSE CleanLoop(b, k + 1, cleaned_orders)

\* mutant: only completed orders are removed
clean_orders_completed_only(b) ==
  [b EXCEPT !.orders =
     SelectSeq(b.orders, LAMBDA id : b.heap[id].status # COMPLETED_STATUS)]

clean_orders(b) == [b EXCEPT !.orders = CleanLoop(b, 1, <<>>)]

\* balances[symbol], with the debit_total of the pending orders added back
RECURSIVE AddPending(_, _, _)
AddPending(b, k, balances) ==
  IF k > Len(b.orders) THEN balances
  ELSE LET o == b.heap[b.orders[k]]
       IN IF o.status = PENDING_STATUS
            THEN IF o.side = BUY_SIDE
                   THEN AddPending(b, k + 1,
                          [balances EXCEPT ![o.quote] = Add(@, o.debit_total)])
                 ELSE IF o.side = SELL_SIDE
                   THEN AddPending(b, k + 1,
                          [balances EXCEPT ![o.base] = Add(@, o.debit_total)])
                 ELSE AddPending(b, k + 1, balances)
            ELSE AddPending(b, k + 1, balances)

\* balance * price, or the balance alone when the price is None (TypeError)
Converted(balance, current_price) ==
  IF current_price = None THEN balance ELSE Mul(balance, current_price)

RECURSIVE SumValue(_, _, _, _)
SumValue(b, balances, k, total_value) ==
  IF k > Len(account_symbols) THEN total_value
  ELSE LET symbol == account_symbols[k]
           converted_price == Converted(balances[symbol], get_current_price(b, symbol))
       IN SumValue(b, balances, k + 1, Add(total_value, converted_price))

\* mutant: the pending orders' debits are not added back
calculate_total_value_ledger_only(b) ==
  LET balances == [symbol \in Symbols |-> get_account_balance(b, symbol)]
  IN [b EXCEPT !.metrics[b.index] = SumValue(b, balances, 1, 0)]

calculate_total_value(b) ==
  LET balances == [symbol \in Symbols |-> get_account_balance(b, symbol)]
      counted == AddPending(b, 1, balances)
  IN [b EXCEPT !.metrics[b.index] = SumValue(b, counted, 1, 0)]

\* the loop of handle_data over self.orders; an exception ends it
RECURSIVE LimitLoop(_, _)
LimitLoop(b, k) ==
  IF k > Len(b.orders) \/ b.exc # "none" THEN b
  ELSE LET id == b.orders[k]
       IN IF b.heap[id].type = LIMIT_TYPE
            THEN LimitLoop(handle_limit_order(b, id), k + 1)
            ELSE LimitLoop(b, k + 1)

handle_data(b, i) ==
  LET b0 == [b EXCEPT !.index = i]
      b1 == populate_account_balances(b0)
      b2 == LimitLoop(b1, 1)
  IN IF b2.exc # "none" THEN b2
     ELSE calculate_total_value(clean_orders(b2))

\* ------------------------------------------------------------- placement
\* mutant: the guard lets the exact balance through
place_order_geq(b, order) ==
  LET balance == get_account_balance(b, order.debit_account)
      fee == Fee(order)
  IN IF Geq(balance, Add(order.debit_total, fee))
       THEN LET b1 == set_account_balance(b, order.debit_account,
                        Sub(balance, Add(order.debit_total, fee)))
                id == Len(b.heap) + 1
                b2 == [b1 EXCEPT !.heap = Append(b1.heap, order)]
            IN IF order.type = LIMIT_TYPE
                 THEN [b2 EXCEPT !.orders = Append(b2.orders, id)]
               ELSE IF order.type = MARKET_TYPE
                 THEN execute_order(b2, id)
               ELSE b2
       ELSE b

\* mutant: a market order waits in the pending list like a limit order
place_order_queue_market(b, order) ==
  LET balance == get_account_balance(b, order.debit_account)
      fee == Fee(order)
  IN IF Gt(balance, Add(order.debit_total, fee))
       THEN LET b1 == set_account_balance(b, order.debit_account,
                        Sub(balance, Add(order.debit_total, fee)))
                id == Len(b.heap) + 1
                b2 == [b1 EXCEPT !.heap = Append(b1.heap, order)]
            IN [b2 EXCEPT !.orders = Append(b2.orders, id)]
       ELSE b

\* mutant: the order is placed without looking at the balance
place_order_unguarded(b, order) ==
  LET balance == get_account_balance(b, order.debit_account)
      fee == Fee(order)
      b1 == set_account_balance(b, order.debit_account,
              Sub(balance, Add(order.debit_total, fee)))
      id == Len(b.heap) + 1
      b2 == [b1 EXCEPT !.heap = Append(b1.heap, order)]
  IN IF order.type = LIMIT_TYPE
       THEN [b2 EXCEPT !.orders = Append(b2.orders, id)]
     ELSE IF order.type = MARKET_TYPE
       THEN execute_order(b2, id)
     ELSE b2

\* mutant: a limit order is matched against the current price as it is placed
place_order_match_now(b, order) ==
  LET balance == get_account_balance(b, order.debit_account)
      fee == Fee(order)
  IN IF Gt(balance, Add(order.debit_total, fee))
       THEN LET b1 == set_account_balance(b, order.debit_account,
                        Sub(balance, Add(order.debit_total, fee)))
                id == Len(b.heap) + 1
                b2 == [b1 EXCEPT !.heap = Append(b1.heap, order)]
                b3 == [b2 EXCEPT !.orders = Append(b2.orders, id)]
                current_price == get_current_price(b, order.base)
            IN IF order.type = LIMIT_TYPE
                 THEN IF current_price # None /\ CanFill(order, current_price)
                        THEN execute_order(b3, id)
                      ELSE b3
               ELSE IF order.type = MARKET_TYPE
                 THEN execute_order(b2, id)
               ELSE b2
       ELSE b

place_order(b, order) ==
  LET balance == get_account_balance(b, order.debit_account)
      fee == Fee(order)
  IN IF Gt(balance, Add(order.debit_total, fee))
       THEN LET b1 == set_account_balance(b, order.debit_account,
                        Sub(balance, Add(order.debit_total, fee)))
                id == Len(b.heap) + 1
                b2 == [b1 EXCEPT !.heap = Append(b1.heap, order)]
            IN IF order.type = LIMIT_TYPE
                 THEN [b2 EXCEPT !.orders = Append(b2.orders, id)]
               ELSE IF order.type = MARKET_TYPE
                 THEN execute_order(b2, id)
               ELSE b2
       ELSE b

buy_limit_order(base, quote, price, size) ==
  NewOrder(BUY_SIDE, LIMIT_TYPE, base, quote, base, quote,
           price, size, price * size, size)

sell_limit_order(base, quote, price, size) ==
  NewOrder(SELL_SIDE, LIMIT_TYPE, base, quote, quote, base,
           price, size, size, price * size)

\* price is the current price of base, which is a number or NaN here
buy_market_order(base, quote, price, size) ==
  NewOrder(BUY_SIDE, MARKET_TYPE, base, quote, base, quote,
           price, size, Mul(price, size), size)

sell_market_order(base, quote, price, size) ==
  NewOrder(SELL_SIDE, MARKET_TYPE, base, quote, quote, base,
           price, size, size, Mul(price, size))

\* ---------------------------------------------------------- cancellation
\* mutant: the refund leaves the fee out
cancel_order_no_fee(b, id) ==
  LET o == b.heap[id]
      balance == Add(get_account_balance(b, o.debit_account), o.debit_total)
      b1 == set_account_balance(b, o.debit_account, balance)
  IN [b1 EXCEPT !.heap[id].status = CANCELLED_STATUS]

cancel_order(b, id) ==
  LET o == b.heap[id]
      balance == Add(get_account_balance(b, o.debit_account),
                     Add(o.debit_total, Fee(o)))
      b1 == set_account_balance(b, o.debit_account, balance)
  IN [b1 EXCEPT !.heap[id].status = CANCELLED_STATUS]

\* ------------------------------------------------------------ the machine
\* lastOp: the entry point called, the order it built or was given (as it was
\* before the call), the reference of that order (0: none), whether the call
\* went through (accepted, or returned normally), and the current ledger row
\* as it was before the call.
NoRow == [symbol \in Symbols |-> NaN]
Op(op, id, order, ok, before) ==
  [op |-> op, id |-> id, order |-> order, ok |-> ok, before |-> before]

\* flows: paid[a] is what accepted placements debited from a, refunded[a] what
\* cancel_order calls gave back to a, received[a] what fills credited to a,
\* fees[a] the fees within paid[a] less the fees within refunded[a].
Zero == [symbol \in Symbols |-> 0]
RECURSIVE FilledCredit(_, _, _, _)
FilledCredit(old, new, account, id) ==
  IF id = 0 THEN 0
  ELSE Add(FilledCredit(old, new, account, id - 1),
           IF /\ id <= Len(old)
              /\ old[id].status = PENDING_STATUS
              /\ new[id].status = COMPLETED_STATUS
              /\ old[id].credit_account = account
             THEN old[id].credit_total ELSE 0)

Commit(b) ==
  /\ data' = data
  /\ index' = b.index
  /\ accounts_df' = b.accounts_df
  /\ metrics' = b.metrics
  /\ orders' = b.orders
  /\ heap' = b.heap
  /\ exc' = b.exc
  /\ pc' = IF b.exc = "none" THEN pc ELSE "error"

Init ==
  /\ data \in Series
  /\ index = 0
  /\ accounts_df = [i \in Steps |-> [symbol \in Symbols |-> NaN]]
  /\ metrics = [i \in Steps |-> NaN]
  /\ orders = <<>>
  /\ heap = <<>>
  /\ limit_fee \in FeeRates
  /\ market_fee = DEFAULT_MARKET_FEE
  /\ strategy_broker \in BOOLEAN
  /\ pc = "driver"
  /\ exc = "none"
  /\ ncancel = 0
  /\ lastOp = Op("init", 0, NullOrder, TRUE, NoRow)
  /\ flows = [paid |-> Zero, refunded |-> Zero, received |-> Zero, fees |-> Zero]

\* run: self.broker.handle_data(index) for the next row of the data
HandleData ==
  /\ pc = "driver"
  /\ index < MaxSteps
  /\ LET b == handle_data(Self, index + 1)
     IN /\ index' = b.index
        /\ accounts_df' = b.accounts_df
        /\ metrics' = b.metrics
        /\ orders' = b.orders
        /\ heap' = b.heap
        /\ exc' = b.exc
        /\ pc' = IF b.exc = "none" THEN "wrapper" ELSE "error"
        /\ lastOp' = Op("handle_data", 0, NullOrder, b.exc = "none", NoRow)
        /\ flows' = [flows EXCEPT !.received =
                       [a \in Symbols |->
                          Add(@[a], FilledCredit(heap, b.heap, a, Len(heap)))]]
  /\ UNCHANGED <<data, limit_fee, market_fee, strategy_broker, ncancel>>

\* run: strategy.handle_data_wrapper(index)
HandleDataWrapper ==
  /\ pc = "wrapper"
  /\ IF strategy_broker
       THEN pc' = "strategy" /\ exc' = exc
       ELSE pc' = "error" /\ exc' = "NoBrokerError"
  /\ lastOp' = Op("handle_data_wrapper", 0, NullOrder, strategy_broker, NoRow)
  /\ UNCHANGED <<data, index, accounts_df, metrics, orders, heap, limit_fee,
                 market_fee, strategy_broker, ncancel, flows>>

\* one placement call of the strategy, given the order its entry point builds
Place(op, order) ==
  LET b == place_order(Self, order)
      accepted == Len(b.heap) > Len(heap)
  IN /\ Commit(b)
     /\ lastOp' = Op(op, IF accepted THEN Len(b.heap) ELSE 0, order, accepted,
                     accounts_df[index])
     /\ flows' =
          IF accepted
            THEN [flows EXCEPT
                    !.paid[order.debit_account] =
                       Add(@, Add(order.debit_total, Fee(order))),
                    !.fees[order.debit_account] = Add(@, Fee(order)),
                    !.received[order.credit_account] =
                       Add(@, IF b.heap[Len(b.heap)].status = COMPLETED_STATUS
                                THEN order.credit_total ELSE 0)]
            ELSE flows
     /\ UNCHANGED <<limit_fee, market_fee, strategy_broker, ncancel>>

\* price * size raises TypeError when the price is None
Raise(op, e) ==
  /\ pc' = "error"
  /\ exc' = e
  /\ lastOp' = Op(op, 0, NullOrder, FALSE, accounts_df[index])
  /\ UNCHANGED <<data, index, accounts_df, metrics, orders, heap, limit_fee,
                 market_fee, strategy_broker, ncancel, flows>>

BuyLimit ==
  /\ pc = "strategy"
  /\ Len(heap) + ncancel < MaxCalls
  /\ \E pair \in Pairs, price \in LimitPrices, size \in Sizes :
       Place("buy_limit", buy_limit_order(pair[1], pair[2], price, size))

SellLimit ==
  /\ pc = "strategy"
  /\ Len(heap) + ncancel < MaxCalls
  /\ \E pair \in Pairs, price \in LimitPrices, size \in Sizes :
       Place("sell_limit", sell_limit_order(pair[1], pair[2], price, size))

BuyMarket ==
  /\ pc = "strategy"
  /\ Len(heap) + ncancel < MaxCalls
  /\ \E pair \in Pairs, size \in Sizes :
       LET price == get_current_price(Self, pair[1])
       IN IF price = None
            THEN Raise("buy_market", "TypeError")
            ELSE Place("buy_market", buy_market_order(pair[1], pair[2], price, size))

SellMarket ==
  /\ pc = "strategy"
  /\ Len(heap) + ncancel < MaxCalls
  /\ \E pair \in Pairs, size \in Sizes :
       LET price == get_current_price(Self, pair[1])
       IN IF price = None
            THEN Raise("sell_market", "TypeError")
            ELSE Place("sell_market", sell_market_order(pair[1], pair[2], price, size))

\* the strategy cancels an order it took from broker.orders at some time
CancelOrder ==
  /\ pc = "strategy"
  /\ Len(heap) + ncancel < MaxCalls
  /\ \E id \in 1..Len(heap) :
       /\ heap[id].type = LIMIT_TYPE
       /\ Commit(cancel_order(Self, id))
       /\ lastOp' = Op("cancel_order", id, heap[id], TRUE, accounts_df[index])
       /\ flows' = [flows EXCEPT
                      !.refunded[heap[id].debit_account] =
                         Add(@, Add(heap[id].debit_total, Fee(heap[id]))),
                      !.fees[heap[id].debit_account] = Sub(@, Fee(heap[id]))]
  /\ ncancel' = ncancel + 1
  /\ UNCHANGED <<limit_fee, market_fee, strategy_broker>>

\* the strategy's handle_data returns
StrategyReturn ==
  /\ pc = "strategy"
  /\ pc' = "driver"
  /\ lastOp' = Op("return", 0, NullOrder, TRUE, NoRow)
  /\ UNCHANGED <<data, index, accounts_df, metrics, orders, heap, limit_fee,
                 market_fee, strategy_broker, exc, ncancel, flows>>

\* run: the loop over the data is over
Finish ==
  /\ pc = "driver"
  /\ index = MaxSteps
  /\ pc' = "done"
  /\ lastOp' = Op("calculate_metrics", 0, NullOrder, TRUE, NoRow)
  /\ UNCHANGED <<data, index, accounts_df, metrics, orders, heap, limit_fee,
                 market_fee, strategy_broker, exc, ncancel, flows>>

Next ==
  \/ HandleData
  \/ HandleDataWrapper
  \/ BuyLimit
  \/ SellLimit
  \/ BuyMarket
  \/ SellMarket
  \/ CancelOrder
  \/ StrategyReturn
  \/ Finish

Spec == Init /\ [][Next]_vars

\* ------------------------------------------------------------ properties
PlaceOps == {"buy_limit", "sell_limit", "buy_market", "sell_market"}
LimitOps == {"buy_limit", "sell_limit"}
MarketOps == {"buy_market", "sell_market"}
Resolved == {COMPLETED_STATUS, CANCELLED_STATUS}

\* C1: cancel_order on an order that is not PENDING is rejected: no account
\* balance changes and the order keeps its status (no second refund).
C1_CancelNonPendingRejected ==
  [][(lastOp'.op = "cancel_order" /\ lastOp'.order.status # PENDING_STATUS)
       => /\ accounts_df' = accounts_df
          /\ heap'[lastOp'.id].status = heap[lastOp'.id].status]_vars

\* C2: once an order is COMPLETED or CANCELLED its status never changes again.
C2_TerminalStatusIsFinal ==
  [][\A id \in 1..Len(heap) :
       heap[id].status \in Resolved => heap'[id].status = heap[id].status]_vars

\* the current price of `account` at step i is a number
PriceAvailable(account, i) ==
  price_columns[account] # "None" /\ data[i] # NaN

\* C3: in a process step, every PENDING limit order of the pending list whose
\* base has a current price is filled (COMPLETED) iff order.price >= price for
\* a BUY and iff order.price <= price for a SELL.
C3_LimitFillIff ==
  [][lastOp'.op = "handle_data"
       => \A k \in 1..Len(orders) :
            LET o == heap[orders[k]]
            IN (/\ o.type = LIMIT_TYPE
                /\ o.status = PENDING_STATUS
                /\ PriceAvailable(o.base, index'))
               => (heap'[orders[k]].status = COMPLETED_STATUS
                     <=> IF o.side = BUY_SIDE THEN o.price >= data[index']
                                              ELSE o.price <= data[index'])]_vars

\* C4: with no current price for an order's base, the process step leaves the
\* pending limit orders on it PENDING and in the list, and completes normally:
\* no exception, and the step's total value is recorded.
C4_MissingPriceIsNoMatch ==
  [][(/\ lastOp'.op = "handle_data"
      /\ \E k \in 1..Len(orders) :
           /\ heap[orders[k]].type = LIMIT_TYPE
           /\ heap[orders[k]].status = PENDING_STATUS
           /\ ~PriceAvailable(heap[orders[k]].base, index'))
       => /\ exc' = "none"
          /\ lastOp'.ok
          /\ \A k \in 1..Len(orders) :
               (/\ heap[orders[k]].type = LIMIT_TYPE
                /\ heap[orders[k]].status = PENDING_STATUS
                /\ ~PriceAvailable(heap[orders[k]].base, index'))
               => /\ heap'[orders[k]].status = PENDING_STATUS
                  /\ \E j \in 1..Len(orders') : orders'[j] = orders[k]]_vars

\* C5: a placement whose debit account holds no more than debit_total + fee
\* (the exact amount included) is rejected: no order is queued or executed and
\* no balance changes.
C5_PlacementGuard ==
  [][(lastOp'.op \in PlaceOps /\ lastOp'.order # NullOrder)
       => LET o == lastOp'.order
              balance == accounts_df[index][o.debit_account]
          IN ~Gt(balance, Add(o.debit_total, Fee(o)))
               => /\ ~lastOp'.ok
                  /\ accounts_df' = accounts_df
                  /\ orders' = orders
                  /\ heap' = heap]_vars

\* a sell of exactly the balance held, at a zero fee, was turned down
C5_Witness ==
  /\ lastOp.op \in PlaceOps
  /\ lastOp.order # NullOrder
  /\ ~lastOp.ok
  /\ lastOp.order.debit_total # NaN
  /\ accounts_df[index][lastOp.order.debit_account]
       = lastOp.order.debit_total + Fee(lastOp.order)

Total(f) == Add(f["USD"], f["BTC"])

\* C6 as stated: all balances plus the fees paid add up to the starting balances.
C6_GlobalSumConserved ==
  index >= 1 =>
    Add(Total(accounts_df[index]), Total(flows.fees)) = Total(starting_balances)

\* C6, amended: conservation holds account by account. A balance is the
\* starting balance, less what accepted placements debited (debit_total + fee
\* each), plus what cancel_order calls refunded, plus what fills credited
\* (in the ledger's arithmetic: a NaN credit makes both sides NaN).
C6_AccountConserved ==
  index >= 1 =>
    \A a \in Symbols :
      accounts_df[index][a] =
        Add(Add(Sub(starting_balances[a], flows.paid[a]), flows.refunded[a]),
            flows.received[a])

\* a placement, a fill and a cancellation have all moved balances
C6_Witness ==
  /\ \E a \in Symbols : flows.paid[a] > 0
  /\ \E a \in Symbols : flows.received[a] > 0
  /\ \E a \in Symbols : flows.refunded[a] > 0
  /\ \E a \in Symbols : flows.fees[a] > 0

\* the ledger row a process step starts from
PrevRow == IF index = 0 THEN starting_balances ELSE accounts_df[index]

\* C7: an accepted placement takes exactly debit_total + fee from the debit
\* account (BUY: price*size of quote; SELL: size of base; fee at limit_fee or
\* market_fee by kind) and touches no other account, bar the credit a market
\* order gets on execution; a later fill credits credit_total and charges nothing.
C7_DebitAtPlacement ==
  [][/\ (lastOp'.op \in PlaceOps /\ lastOp'.ok)
          => LET o == lastOp'.order
                 buy == lastOp'.op \in {"buy_limit", "buy_market"}
                 rate == IF lastOp'.op \in LimitOps THEN limit_fee ELSE market_fee
                 debit == IF buy THEN o.quote ELSE o.base
                 total == IF buy THEN Mul(o.price, o.size) ELSE o.size
                 fee == (total * rate) \div FeeDen
             IN /\ o.debit_account = debit
                /\ o.debit_total = total
                /\ total # NaN
                /\ accounts_df'[index][debit] = accounts_df[index][debit] - (total + fee)
                /\ \A a \in Symbols \ {debit} :
                     (lastOp'.op \in LimitOps \/ a # o.credit_account)
                       => accounts_df'[index][a] = accounts_df[index][a]
                /\ \A i \in Steps \ {index} : accounts_df'[i] = accounts_df[i]
     /\ (lastOp'.op = "handle_data")
          => \A a \in Symbols :
               accounts_df'[index'][a]
                 = Add(PrevRow[a], FilledCredit(heap, heap', a, Len(heap)))]_vars

\* a limit order that paid a fee at placement has been filled by a process step
C7_Witness ==
  /\ lastOp.op = "handle_data"
  /\ \E id \in 1..Len(heap) :
       /\ heap[id].type = LIMIT_TYPE
       /\ heap[id].status = COMPLETED_STATUS
       /\ Fee(heap[id]) > 0

\* C8: an accepted market order is COMPLETED and credited within the call and
\* never enters the pending list; an accepted limit order is appended to the
\* pending list PENDING, with no credit.
C8_MarketNowLimitQueued ==
  /\ [][(lastOp'.op \in PlaceOps /\ lastOp'.ok)
          => LET o == lastOp'.order
                 id == lastOp'.id
             IN IF lastOp'.op \in MarketOps
                  THEN /\ heap'[id].status = COMPLETED_STATUS
                       /\ accounts_df'[index][o.credit_account]
                            = Add(accounts_df[index][o.credit_account], o.credit_total)
                       /\ orders' = orders
                  ELSE /\ heap'[id].status = PENDING_STATUS
                       /\ accounts_df'[index][o.credit_account]
                            = accounts_df[index][o.credit_account]
                       /\ orders' = Append(orders, id)]_vars
  /\ [](\A k \in 1..Len(orders) : heap[orders[k]].type = LIMIT_TYPE)

\* a market order went through while a limit order waits in the list
C8_Witness ==
  /\ lastOp.op \in MarketOps
  /\ lastOp.ok
  /\ heap[lastOp.id].status = COMPLETED_STATUS
  /\ Len(orders) >= 1

\* C9: cancelling a PENDING limit order refunds exactly debit_total + fee to
\* its debit account and sets it CANCELLED; placed and cancelled straight
\* away, every balance is back at its value before the placement.
C9_CancelRefundsPlacement ==
  [][(lastOp'.op = "cancel_order" /\ lastOp'.order.status = PENDING_STATUS)
       => LET o == lastOp'.order
              id == lastOp'.id
              fee == (o.debit_total * limit_fee) \div FeeDen
          IN /\ accounts_df' =
                  [accounts_df EXCEPT ![index][o.debit_account] =
                                         Add(@, o.debit_total + fee)]
             /\ heap'[id].status = CANCELLED_STATUS
             /\ (lastOp.op \in LimitOps /\ lastOp.ok /\ lastOp.id = id)
                  => accounts_df'[index] = lastOp.before]_vars

\* a limit order that paid a fee was cancelled while PENDING, and the balances
\* are the starting balances again
C9_Witness ==
  /\ lastOp.op = "cancel_order"
  /\ lastOp.order.status = PENDING_STATUS
  /\ heap[lastOp.id].status = CANCELLED_STATUS
  /\ Fee(lastOp.order) > 0
  /\ accounts_df[index] = starting_balances

\* C10: when a process step returns, the pending list is the list it started
\* from less the orders now COMPLETED or CANCELLED, the rest in their order;
\* cleaning a cleaned list changes nothing.
C10_CleanupKeepsPending ==
  /\ [][(lastOp'.op = "handle_data" /\ lastOp'.ok)
          => /\ orders' = SelectSeq(orders, LAMBDA id : heap'[id].status = PENDING_STATUS)
             /\ \A k \in 1..Len(orders') : heap'[orders'[k]].status \notin Resolved]_vars
  /\ [](clean_orders(clean_orders(Self)).orders = clean_orders(Self).orders)
  /\ []((lastOp.op = "handle_data" /\ lastOp.ok) => clean_orders(Self).orders = orders)

\* a process step has left two orders in the list and a resolved limit order
\* is gone from it
C10_Witness ==
  /\ lastOp.op = "handle_data"
  /\ lastOp.ok
  /\ Len(orders) >= 2
  /\ \E id \in 1..Len(heap) :
       /\ heap[id].type = LIMIT_TYPE
       /\ heap[id].status \in Resolved
       /\ id < orders[Len(orders)]
       /\ \A k \in 1..Len(orders) : orders[k] # id

\* some order of the heap went from PENDING to COMPLETED in this step
SomeFill == \E id \in 1..Len(heap) :
              heap[id].status = PENDING_STATUS /\ heap'[id].status = COMPLETED_STATUS

\* C11: the first row a process step populates holds the starting balances;
\* a later step's row starts as a copy of the row before it as the strategy
\* left it, and differs from it only by what the step fills; a call made by
\* the strategy writes the current row only; no step writes an earlier row.
C11_CarryForward ==
  [][/\ (lastOp'.op = "handle_data")
          => /\ index' = index + 1
             /\ (index = 0 /\ ~SomeFill) => accounts_df'[index'] = starting_balances
             /\ (index >= 1 /\ ~SomeFill) => accounts_df'[index'] = accounts_df[index]
             /\ \A a \in Symbols :
                  accounts_df'[index'][a]
                    = Add(PrevRow[a], FilledCredit(heap, heap', a, Len(heap)))
     /\ (lastOp'.op # "handle_data")
          => /\ index' = index
             /\ (lastOp'.op \notin PlaceOps \cup {"cancel_order"} \/ ~lastOp'.ok)
                  => accounts_df' = accounts_df
     /\ \A i \in Steps : i < index' => accounts_df'[i] = accounts_df[i]
     /\ \A i \in Steps : i > index' => accounts_df'[i] = NoRow]_vars

\* a process step copied a row that the strategy had changed, and a second
\* step copied it again unchanged
C11_Witness ==
  /\ lastOp.op = "handle_data"
  /\ index >= 3
  /\ accounts_df[index] = accounts_df[index - 1]
  /\ accounts_df[index - 1] = accounts_df[index - 2]
  /\ accounts_df[index] # starting_balances

\* sum of debit_total over the first k orders of the pending list that are
\* PENDING and debit the account
RECURSIVE PendingDebit(_, _, _, _)
PendingDebit(list, h, account, k) ==
  IF k = 0 THEN 0
  ELSE LET o == h[list[k]]
       IN Add(PendingDebit(list, h, account, k - 1),
              IF o.status = PENDING_STATUS /\ o.debit_account = account
                THEN o.debit_total ELSE 0)

\* the value of one account at step i: counted balance times price, or the
\* counted balance alone for an account without price column
CountedValue(list, h, row, account, i) ==
  LET counted == Add(row[account], PendingDebit(list, h, account, Len(list)))
  IN IF price_columns[account] = "None" THEN counted
     ELSE Mul(counted, data[i])

\* C12: the total value a process step records is the sum over the accounts
\* of (balance + debit_total of the PENDING orders of the pending list that
\* debit the account) * price, the price left out for an account without one;
\* with no pending order it is the sum of balance * price.
C12_TotalValue ==
  [][(lastOp'.op = "handle_data" /\ lastOp'.ok)
       => /\ metrics'[index']
               = Add(CountedValue(orders', heap', accounts_df'[index'], "USD", index'),
                     CountedValue(orders', heap', accounts_df'[index'], "BTC", index'))
          /\ (orders' = <<>>)
               => metrics'[index']
                    = Add(accounts_df'[index']["USD"],
                          Mul(accounts_df'[index']["BTC"], data[index']))]_vars

\* a step valued a ledger holding both currencies with an order still pending
C12_Witness ==
  /\ lastOp.op = "handle_data" /\ lastOp.ok
  /\ metrics[index] # NaN
  /\ accounts_df[index]["BTC"] > 0
  /\ \E k \in 1..Len(orders) : heap[orders[k]].status = PENDING_STATUS
  /\ metrics[index] # Add(accounts_df[index]["USD"],
                           Mul(accounts_df[index]["BTC"], data[index]))

\* the scenario of C13 up to the sell: prices 100, 110, 90, and the only call
\* so far the buy_market("BTC", "USD", size 1) made at the first step
BoughtOneAtFirstStep ==
  /\ data[1] = 100 /\ data[2] = 110 /\ data[3] = 90
  /\ ncancel = 0
  /\ Len(heap) = 1
  /\ heap[1].type = MARKET_TYPE /\ heap[1].side = BUY_SIDE
  /\ heap[1].base = "BTC" /\ heap[1].quote = "USD"
  /\ heap[1].price = 100 /\ heap[1].size = FeeDen

\* the sell_limit("BTC", "USD", price 95, size 1) called at the second step
SellLimitAtSecondStep ==
  /\ BoughtOneAtFirstStep
  /\ index = 2
  /\ lastOp'.op = "sell_limit"
  /\ lastOp'.order.base = "BTC" /\ lastOp'.order.quote = "USD"
  /\ lastOp'.order.price = 95 /\ lastOp'.order.size = FeeDen

\* C13 as stated: the sell limit order of the scenario exists and is still
\* PENDING after the third step (price 90) has been processed.
C13_SellLimitStaysPending ==
  [][/\ SellLimitAtSecondStep
          => /\ lastOp'.ok
             /\ Len(heap') = 2 /\ heap'[2].status = PENDING_STATUS
             /\ orders' = <<2>>
     /\ (index = 2 /\ lastOp'.op = "handle_data" /\ Len(heap) = 2
           /\ heap[2].type = LIMIT_TYPE /\ heap[2].side = SELL_SIDE
           /\ heap[2].status = PENDING_STATUS /\ heap[2].price = 95
           /\ data[3] = 90)
          => heap'[2].status = PENDING_STATUS /\ orders' = orders]_vars

\* C13: in the scenario the sell_limit of the one BTC held is turned down
\* (1 is not greater than 1 + fee): no sell order comes to exist, the ledger
\* is unchanged, and after the third step the pending list is empty and the
\* BTC balance is still 1.
C13_SellLimitRejected ==
  [][/\ SellLimitAtSecondStep
          => /\ ~lastOp'.ok
             /\ heap' = heap /\ orders' = <<>>
             /\ accounts_df' = accounts_df
             /\ accounts_df[index]["BTC"] = FeeDen
     /\ (BoughtOneAtFirstStep /\ index = 2 /\ lastOp'.op = "handle_data")
          => /\ lastOp'.ok
             /\ orders' = <<>> /\ heap' = heap
             /\ accounts_df'[3] = accounts_df[2]
             /\ accounts_df'[3]["BTC"] = FeeDen]_vars

\* the sell_limit of the scenario was called and turned down
C13_Witness ==
  /\ BoughtOneAtFirstStep
  /\ index = 2
  /\ lastOp.op = "sell_limit" /\ ~lastOp.ok
  /\ lastOp.order.base = "BTC" /\ lastOp.order.price = 95
  /\ lastOp.order.size = FeeDen
  /\ accounts_df[index]["BTC"] = FeeDen
  /\ orders = <<>>

\* C14 as stated: when the run fails with NoBrokerError no ledger row has
\* been populated and no total value has been recorded.
C14_FailsBeforeAnyStep ==
  (exc = "NoBrokerError")
    => \A i \in Steps : accounts_df[i] = NoRow /\ metrics[i] = NaN

\* the run of a strategy without broker has failed, with the first step
\* processed by the engine
C14_Witness ==
  /\ ~strategy_broker
  /\ pc = "error" /\ exc = "NoBrokerError"
  /\ lastOp.op = "handle_data_wrapper" /\ ~lastOp.ok
  /\ index = 1
  /\ accounts_df[1] = starting_balances
  /\ metrics[1] # NaN

\* C15: an order is credited only as it goes from PENDING to COMPLETED, and
\* an order that is not PENDING never becomes PENDING again, so credit_total
\* is credited at most once; a process step that meets an order that is not
\* PENDING leaves the order and every balance as they are.
C15_ExecuteAtMostOnce ==
  [][/\ \A id \in 1..Len(heap) :
          /\ heap[id].status # PENDING_STATUS => heap'[id].status # PENDING_STATUS
          /\ (heap[id].status # COMPLETED_STATUS /\ heap'[id].status = COMPLETED_STATUS)
               => heap[id].status = PENDING_STATUS /\ lastOp'.op = "handle_data"
     /\ (lastOp'.op = "handle_data")
          => /\ \A id \in 1..Len(heap) :
                  heap[id].status # PENDING_STATUS => heap'[id] = heap[id]
             /\ \A a \in Symbols :
                  accounts_df'[index'][a]
                    = Add(PrevRow[a], FilledCredit(heap, heap', a, Len(heap)))
             /\ (~SomeFill) => accounts_df'[index'] = PrevRow]_vars

\* the second step met an order cancelled during the first, at a price that
\* crosses its limit, and credited nothing
C15_Witness ==
  /\ index = 2
  /\ lastOp.op = "handle_data" /\ lastOp.ok
  /\ \E id \in 1..Len(heap) :
       /\ heap[id].type = LIMIT_TYPE
       /\ heap[id].status = CANCELLED_STATUS
       /\ CanFill(heap[id], data[index])
       /\ accounts_df[2][heap[id].credit_account]
            = accounts_df[1][heap[id].credit_account]

\* what a limit order is due by its own price and size: size of base for a
\* BUY, price * size of quote for a SELL
DueAtLimitPrice(o) == IF o.side = BUY_SIDE THEN o.size ELSE o.price * o.size

\* sum of DueAtLimitPrice over the orders that went from PENDING to
\* COMPLETED and credit the account
RECURSIVE FilledAtLimitPrice(_, _, _, _)
FilledAtLimitPrice(old, new, account, id) ==
  IF id = 0 THEN 0
  ELSE Add(FilledAtLimitPrice(old, new, account, id - 1),
           IF /\ old[id].status = PENDING_STATUS
              /\ new[id].status = COMPLETED_STATUS
              /\ old[id].credit_account = account
             THEN DueAtLimitPrice(old[id]) ELSE 0)

\* C16: price, size, debit_total and credit_total of an order are set at
\* placement (a limit order's from the price and size of the call) and no
\* process step, fill or cancellation changes them; a limit order that fills
\* is credited size (BUY) or order.price * size (SELL), whatever the current
\* price of the step.
C16_TermsFixedAtPlacement ==
  [][/\ \A id \in 1..Len(heap) :
          /\ heap'[id].price = heap[id].price
          /\ heap'[id].size = heap[id].size
          /\ heap'[id].debit_total = heap[id].debit_total
          /\ heap'[id].credit_total = heap[id].credit_total
     /\ (lastOp'.op \in LimitOps /\ lastOp'.ok)
          => LET o == heap'[lastOp'.id]
             IN /\ o.price = lastOp'.order.price /\ o.size = lastOp'.order.size
                /\ o.price \in LimitPrices
                /\ o.credit_total = DueAtLimitPrice(o)
                /\ o.debit_total = IF o.side = BUY_SIDE THEN o.price * o.size
                                   ELSE o.size
     /\ (lastOp'.op = "handle_data")
          => \A a \in Symbols :
               accounts_df'[index'][a]
                 = Add(PrevRow[a], FilledAtLimitPrice(heap, heap', a, Len(heap)))]_vars

\* the only order, a limit order, was filled by this step at a current price
\* other than its own
C16_Witness ==
  /\ lastOp.op = "handle_data"
  /\ index >= 2
  /\ Len(heap) = 1
  /\ heap[1].type = LIMIT_TYPE /\ heap[1].status = COMPLETED_STATUS
  /\ data[index] # NaN /\ data[index] # heap[1].price
  /\ accounts_df[index][heap[1].credit_account]
       = accounts_df[index - 1][heap[1].credit_account] + heap[1].credit_total

\* every price of the steps processed so far is a number
PricesSoFarPositive == \A i \in 1..index : data[i] # NaN /\ data[i] > 0

\* C17: no balance of any populated ledger row is negative, whatever was
\* placed, filled or cancelled; with positive prices every balance is a number
\* that is not negative, and an accepted placement leaves its debit account
\* strictly positive.
C17_NoNegativeBalance ==
  /\ [](\A i \in 1..index : \A a \in Symbols :
          /\ accounts_df[i][a] = NaN \/ accounts_df[i][a] >= 0
          /\ PricesSoFarPositive => accounts_df[i][a] >= 0)
  /\ [][(lastOp'.op \in PlaceOps /\ lastOp'.ok)
          => /\ accounts_df'[index][lastOp'.order.debit_account] # NaN
             /\ accounts_df'[index][lastOp'.order.debit_account] > 0]_vars

\* an accepted placement left less in its debit account than it took
C17_Witness ==
  /\ lastOp.op \in PlaceOps /\ lastOp.ok
  /\ PricesSoFarPositive
  /\ accounts_df[index][lastOp.order.debit_account] > 0
  /\ accounts_df[index][lastOp.order.debit_account] < lastOp.order.debit_total

\* C18: a limit order the strategy places during a step is PENDING and
\* uncredited when the call returns, even at a crossing price; the step's row
\* and total value were written before the call and the call leaves the total
\* value alone; a limit order fills only within a process step, which is a
\* later step, against that step's price.
C18_NoFillInPlacementStep ==
  [][/\ (lastOp'.op \in LimitOps /\ lastOp'.ok)
          => LET o == lastOp'.order
                 id == lastOp'.id
             IN /\ heap'[id].status = PENDING_STATUS
                /\ accounts_df'[index][o.credit_account]
                     = accounts_df[index][o.credit_account]
                /\ accounts_df[index] # NoRow
                /\ pc = "strategy"
     /\ (lastOp'.op # "handle_data")
          => /\ index' = index
             /\ metrics' = metrics
             /\ \A id \in 1..Len(heap) :
                  (heap[id].type = LIMIT_TYPE /\ heap[id].status = PENDING_STATUS)
                    => heap'[id].status \in {PENDING_STATUS, CANCELLED_STATUS}
     /\ (lastOp'.op = "handle_data")
          => /\ index' = index + 1
             /\ \A i \in 1..index : metrics'[i] = metrics[i]
             /\ \A id \in 1..Len(heap) :
                  (heap[id].status = PENDING_STATUS
                     /\ heap'[id].status = COMPLETED_STATUS)
                    => /\ heap[id].type = LIMIT_TYPE
                       /\ CanFill(heap[id], data[index'])]_vars

\* a limit order was accepted at a step whose price crosses its limit, and
\* is PENDING
C18_Witness ==
  /\ lastOp.op \in LimitOps /\ lastOp.ok
  /\ price_columns[lastOp.order.base] # "None"
  /\ CanFill(lastOp.order, data[index])
  /\ heap[lastOp.id].status = PENDING_STATUS
  /\ metrics[index] # NaN

\* C19 as stated: a cancelled limit order stays CANCELLED and is never
\* credited, whatever the later prices, and the next process step takes it
\* out of the pending list.
C19_CancelledNeverFilled ==
  [][/\ \A id \in 1..Len(heap) :
          (heap[id].type = LIMIT_TYPE /\ heap[id].status = CANCELLED_STATUS)
            => heap'[id].status = CANCELLED_STATUS
     /\ (lastOp'.op = "handle_data")
          => /\ \A a \in Symbols :
                  accounts_df'[index'][a]
                    = Add(PrevRow[a], FilledCredit(heap, heap', a, Len(heap)))
             /\ \A k \in 1..Len(orders') :
                  heap[orders'[k]].status # CANCELLED_STATUS]_vars

\* a process step met a cancelled order at a price crossing its limit, left
\* it CANCELLED and uncredited, and raised before its cleanup: the order is
\* still in the pending list
C19_Witness ==
  /\ lastOp.op = "handle_data" /\ ~lastOp.ok
  /\ \E k \in 1..Len(orders) :
       LET o == heap[orders[k]]
       IN /\ o.status = CANCELLED_STATUS
          /\ price_columns[o.base] # "None"
          /\ CanFill(o, data[index])
          /\ accounts_df[index][o.credit_account]
               = accounts_df[index - 1][o.credit_account]

====
